---- MODULE Spec2Model ----
(***************************************************************************)
(* Buffer pool manager (buffer_pool_manager_instance.cpp) over the         *)
(* extendible hash table (extendible_hash_table.cpp) used as page table,   *)
(* an LRU-K replacer and a disk manager.                                   *)
(***************************************************************************)
EXTENDS Integers, Sequences, FiniteSets, TLC

\* ---------------------------------------------------------------- bounds
PoolSize == 2      \* pool_size: number of frames
MaxPages == 3      \* page ids handed out by AllocatePage stay below this
MaxTime == 5       \* the replacer's logical clock stays at or below this
MaxVal == 1        \* page contents are 0 (zeroed) or 1..MaxVal
WritePages == 1    \* callers write the bytes of pages 0..WritePages-1 only
KeyBits == 2       \* keys of a hash table are 0 .. 2^KeyBits - 1
MaxValue == 3      \* values stored in the stand-alone hash table: 1..MaxValue
MaxBucketSize == 2 \* the stand-alone hash table has bucket_size 1..MaxBucketSize
NumThreads == 2    \* threads calling the pool concurrently

\* ------------------------------------------------------- configuration
ReplacerK == 2
BucketSize == 1
INVALID_PAGE_ID == -1

Frames == 0 .. (PoolSize - 1)
PageIds == 0 .. (MaxPages - 1)
Data == 0 .. MaxVal
NoData == 0 - 1     \* "no contents declared": a value outside Data
WrittenIds == 0 .. (WritePages - 1)

VARIABLES
  pages,          \* pages_[frame]: page_id_, pin_count_, is_dirty_, data
  free_list,      \* free_list_: sequence of frame ids, head first
  page_table,     \* page_table_: an extendible hash table page id -> frame id
  replacer,       \* replacer_: the LRU-K replacer
  next_page_id,   \* next_page_id_
  disk,           \* the disk manager's pages: page id -> contents
  written,        \* per page: contents last declared by UnpinPage(p, true)
  ret             \* the last completed call: operation, arguments, result

vars == <<pages, free_list, page_table, replacer, next_page_id, disk, written, ret>>

poolvars == <<pages, free_list, page_table, replacer, next_page_id, disk>>

\* A hash table used on its own (ExtendibleHashTable<int, int>)
VARIABLES
  table,          \* the table
  shadow,         \* per key: the value of the latest Insert not removed since
  scenario,       \* how far the run so far follows ScenarioOps
  hret            \* the last call: operation, arguments, result

hvars == <<table, shadow, scenario, hret>>

\* Threads calling the pool, and the three latches
VARIABLES
  threads,        \* per thread: the steps of the call it is in, and its place
  latches         \* per latch: the thread holding it (0: free)

lvars == <<threads, latches>>

allvars == <<vars, hvars, lvars>>

\* ======================================================================
\* Extendible hash table
\* ======================================================================

Pow2(n) == 2 ^ n

\* std::hash<int> is the identity on the value converted to size_t.  Only
\* the low bits are ever used; for a negative key the low d bits of the
\* size_t conversion are key mod 2^d.
HashLow(key, d) == key % Pow2(d)

\* A bit test that always looks at the lowest bit
HashBit_Lowest(key, d) == (key % 2) = 1

\* Insert, lines 111-116 and 128: hash & (1 << d), as a truth value
HashBit(key, d) == ((key \div Pow2(d)) % 2) = 1

\* Bucket::Bucket
NewBucket(array_size, depth) == [size |-> array_size, depth |-> depth, list |-> <<>>]

\* ExtendibleHashTable::ExtendibleHashTable.  A directory slot holds the
\* index of its bucket in `buckets` (the shared_ptr's identity).
NewTable(bucket_size) ==
  [global_depth |-> 0, bucket_size |-> bucket_size, num_buckets |-> 1,
   dir |-> <<1>>, buckets |-> <<NewBucket(bucket_size, 0)>>]

IndexOf(t, key) == HashLow(key, t.global_depth)

BucketAt(t, index) == t.buckets[t.dir[index + 1]]

\* Bucket::IsFull
IsFull(b) == Len(b.list) = b.size

KeyPos(b, key) == {i \in 1 .. Len(b.list) : b.list[i][1] = key}

\* Bucket::Find
BucketFind(b, key) ==
  IF KeyPos(b, key) = {}
  THEN [found |-> FALSE, value |-> -1]
  ELSE [found |-> TRUE, value |-> b.list[CHOOSE i \in KeyPos(b, key) : \A j \in KeyPos(b, key) : i <= j][2]]

\* A Bucket::Remove that erases nothing
BucketRemove_Keeps(b, key) == b

\* Bucket::Remove: erases the first entry with the key
BucketRemove(b, key) ==
  IF KeyPos(b, key) = {}
  THEN b
  ELSE LET i == CHOOSE x \in KeyPos(b, key) : \A j \in KeyPos(b, key) : x <= j
       IN [b EXCEPT !.list = SubSeq(b.list, 1, i - 1) \o SubSeq(b.list, i + 1, Len(b.list))]

\* Bucket::Insert
BucketInsert(b, key, value) ==
  IF KeyPos(b, key) # {}
  THEN LET i == CHOOSE x \in KeyPos(b, key) : \A j \in KeyPos(b, key) : x <= j
       IN [b EXCEPT !.list[i] = <<key, value>>]
  ELSE IF IsFull(b) THEN b
  ELSE [b EXCEPT !.list = Append(b.list, <<key, value>>)]

\* ExtendibleHashTable::Find
Find(t, key) == BucketFind(BucketAt(t, IndexOf(t, key)), key)

\* ExtendibleHashTable::Remove
Remove(t, key) ==
  LET bi == t.dir[IndexOf(t, key) + 1]
  IN [t EXCEPT !.buckets[bi] = BucketRemove(t.buckets[bi], key)]

\* A split that doubles the directory every time
Grow_Always(t, target) ==
  [t EXCEPT !.global_depth = t.global_depth + 1, !.dir = t.dir \o t.dir]

\* A split that never doubles the directory
Grow_Never(t, target) == t

\* Insert, lines 103-110: double the directory when the full bucket's local
\* depth equals the global depth.
Grow(t, target) ==
  IF target.depth = t.global_depth
  THEN [t EXCEPT !.global_depth = t.global_depth + 1, !.dir = t.dir \o t.dir]
  ELSE t

\* Insert, lines 114-121: the items of the full bucket that go to bucket_1
\* (side = TRUE) or bucket_0 (side = FALSE), inserted in list order.
RECURSIVE Redistribute(_, _, _, _)
Redistribute(items, depth, side, acc) ==
  IF items = <<>> THEN acc
  ELSE LET item == Head(items)
       IN Redistribute(Tail(items), depth, side,
            IF HashBit(item[1], depth) = side
            THEN BucketInsert(acc, item[1], item[2])
            ELSE acc)

\* A redirection that leaves every slot on bucket_0
Redirect_NoneMoved(dir, bi, b1, depth) == dir

\* A redirection by the lowest bit of the slot number
Redirect_ByLowBit(dir, bi, b1, depth) ==
  [i \in 1 .. Len(dir) |->
     IF dir[i] = bi THEN IF HashBit(i - 1, 0) THEN b1 ELSE bi ELSE dir[i]]

\* Insert, lines 126-130: every slot that referenced the target bucket
\* (bi) now references bucket_1 (b1) when the slot number has the bit
\* `mask` set, and bucket_0 (in the target's place, bi) otherwise
Redirect(dir, bi, b1, depth) ==
  [i \in 1 .. Len(dir) |->
     IF dir[i] = bi THEN IF HashBit(i - 1, depth) THEN b1 ELSE bi ELSE dir[i]]

\* Insert, lines 101-131: one pass of the split loop.  bucket_0 takes the
\* place of the target bucket, bucket_1 is a new bucket.
Split(t, key) ==
  LET bi == t.dir[IndexOf(t, key) + 1]
      target == t.buckets[bi]
      g == Grow(t, target)
      bucket_0 == Redistribute(target.list, target.depth, FALSE, NewBucket(t.bucket_size, target.depth + 1))
      bucket_1 == Redistribute(target.list, target.depth, TRUE, NewBucket(t.bucket_size, target.depth + 1))
      b1 == Len(t.buckets) + 1
  IN [global_depth |-> g.global_depth,
      bucket_size |-> t.bucket_size,
      num_buckets |-> t.num_buckets + 1,
      dir |-> Redirect(g.dir, bi, b1, target.depth),
      buckets |-> Append([t.buckets EXCEPT ![bi] = bucket_0], bucket_1)]

\* Insert, line 100: while the key's bucket is full, split.  Keys are below
\* 2^KeyBits, so a bucket of local depth KeyBits or more holds only entries
\* whose keys are equal; a split of such a bucket sends every entry to
\* bucket_0 (the bits tested from there on are all 0) and leaves the key's
\* bucket as full as before: from there the loop never exits.  The
\* recursion stops at that point and InsertDiverges reports it.
RECURSIVE SplitWhileFull(_, _)
SplitWhileFull(t, key) ==
  IF /\ IsFull(BucketAt(t, IndexOf(t, key)))
     /\ BucketAt(t, IndexOf(t, key)).depth < KeyBits
  THEN SplitWhileFull(Split(t, key), key)
  ELSE t

\* Insert, line 100: the while loop does not exit
InsertDiverges(t, key) ==
  LET s == SplitWhileFull(t, key)
  IN IsFull(BucketAt(s, IndexOf(s, key)))

\* Insert, lines 100-132: the tables the loop passes through, the table at
\* entry first
RECURSIVE SplitSteps(_, _)
SplitSteps(t, key) ==
  IF /\ IsFull(BucketAt(t, IndexOf(t, key)))
     /\ BucketAt(t, IndexOf(t, key)).depth < KeyBits
  THEN <<t>> \o SplitSteps(Split(t, key), key)
  ELSE <<t>>

\* ExtendibleHashTable::Remove, the value returned (Bucket::Remove's)
RemoveResult(t, key) == KeyPos(BucketAt(t, IndexOf(t, key)), key) # {}

\* ExtendibleHashTable::Insert
Insert(t, key, value) ==
  LET s == SplitWhileFull(t, key)
      bi == s.dir[IndexOf(s, key) + 1]
  IN [s EXCEPT !.buckets[bi] = BucketInsert(s.buckets[bi], key, value)]

\* ----------------------------------------------------------------------
\* The table used on its own: Insert, Remove and Find called by one client
\* ----------------------------------------------------------------------

Keys == 0 .. (Pow2(KeyBits) - 1)
Values == 1 .. MaxValue
NoValue == 0       \* "no value": outside Values

\* Bucket sizes 1 and up; 2 is the size of the three-insert scenario
BucketSizes == 1 .. MaxBucketSize

\* The three-insert scenario: Insert(0, a), Insert(1, b), Insert(2, c) on
\* a fresh table, with a = 1, b = 2, c = 3
ScenarioOps == <<<<0, 1>>, <<1, 2>>, <<2, 3>>>>
Off == 0 - 1       \* the run has left the scenario

HResult(op, key, value, found, returned) ==
  [op |-> op, key |-> key, value |-> value, found |-> found, returned |-> returned]

\* A freshly constructed table, nothing called yet
HInit(bucket_size) ==
  /\ table = NewTable(bucket_size)
  /\ shadow = [k \in Keys |-> NoValue]
  /\ scenario = 0
  /\ hret = HResult("none", 0, NoValue, FALSE, TRUE)

\* The scenario counter after an Insert(key, value) that returned
ScenarioAfter(key, value) ==
  IF scenario \in 0 .. (Len(ScenarioOps) - 1) /\ ScenarioOps[scenario + 1] = <<key, value>>
  THEN scenario + 1
  ELSE Off

\* ExtendibleHashTable::Find called by the client
HFind(key) ==
  LET f == Find(table, key)
  IN /\ hret.returned
     /\ hret' = HResult("Find", key, IF f.found THEN f.value ELSE NoValue, f.found, TRUE)
     /\ scenario' = Off
     /\ UNCHANGED <<table, shadow>>

\* ExtendibleHashTable::Remove called by the client
HRemove(key) ==
  /\ hret.returned
  /\ table' = Remove(table, key)
  /\ shadow' = [shadow EXCEPT ![key] = NoValue]
  /\ hret' = HResult("Remove", key, NoValue, RemoveResult(table, key), TRUE)
  /\ scenario' = Off

\* ExtendibleHashTable::Insert called by the client.  When the loop of line
\* 100 does not exit the call never returns: the table is left where the
\* loop stands and the client makes no further call.
HInsert(key, value) ==
  /\ hret.returned
  /\ IF InsertDiverges(table, key)
     THEN /\ table' = SplitWhileFull(table, key)
          /\ hret' = HResult("Insert", key, value, FALSE, FALSE)
          /\ scenario' = Off
          /\ UNCHANGED shadow
     ELSE /\ table' = Insert(table, key, value)
          /\ shadow' = [shadow EXCEPT ![key] = value]
          /\ hret' = HResult("Insert", key, value, TRUE, TRUE)
          /\ scenario' = ScenarioAfter(key, value)

\* ======================================================================
\* LRU-K replacer (interface consumed by the pool)
\* ======================================================================

NewReplacer ==
  [hist |-> [f \in Frames |-> <<>>],
   evictable |-> [f \in Frames |-> FALSE],
   current_timestamp |-> 0]

\* RecordAccess: append the current timestamp, keep the last K
RecordAccess(r, f) ==
  LET h == Append(r.hist[f], r.current_timestamp)
  IN [r EXCEPT !.hist[f] = IF Len(h) > ReplacerK THEN Tail(h) ELSE h,
               !.current_timestamp = r.current_timestamp + 1]

\* SetEvictable: a frame without an entry is left alone
SetEvictable(r, f, e) ==
  IF r.hist[f] = <<>> THEN r ELSE [r EXCEPT !.evictable[f] = e]

Evictable(r) == {f \in Frames : r.hist[f] # <<>> /\ r.evictable[f]}

\* Size
Size(r) == Cardinality(Evictable(r))

\* Entries with fewer than K accesses have K-distance +infinity
Infinite(r, f) == Len(r.hist[f]) < ReplacerK

\* f is at least as good a victim as g: greater backward K-distance, ties
\* by the earliest timestamp still in the history
Before(r, f, g) ==
  \/ Infinite(r, f) /\ ~Infinite(r, g)
  \/ Infinite(r, f) = Infinite(r, g) /\ r.hist[f][1] <= r.hist[g][1]

\* Evict: the victim, when there is one
Victim(r) == CHOOSE f \in Evictable(r) : \A g \in Evictable(r) : Before(r, f, g)

\* Evict: the entry of the victim is dropped
Evict(r) ==
  IF Evictable(r) = {}
  THEN [ok |-> FALSE, frame |-> -1, r |-> r]
  ELSE [ok |-> TRUE, frame |-> Victim(r),
        r |-> [r EXCEPT !.hist[Victim(r)] = <<>>, !.evictable[Victim(r)] = FALSE]]

\* Remove: drops an evictable frame's entry; a frame without an entry is
\* left alone; a frame that is present and not evictable is refused
ReplacerRemove(r, f) ==
  IF r.hist[f] # <<>> /\ r.evictable[f]
  THEN [r EXCEPT !.hist[f] = <<>>, !.evictable[f] = FALSE]
  ELSE r

\* ======================================================================
\* Buffer pool manager
\* ======================================================================

Result(op, page, is_dirty, ok, dealloc) ==
  [op |-> op, page |-> page, is_dirty |-> is_dirty, ok |-> ok, dealloc |-> dealloc]

\* BufferPoolManagerInstance::BufferPoolManagerInstance, lines 22-31: the pool
\* as its members are initialised.  (The constructor as it stands goes on to
\* throw NotImplementedException on line 34; the operations below are those
\* of a pool built without that line.)
PoolInit ==
  /\ pages = [f \in Frames |->
               [page_id |-> INVALID_PAGE_ID, pin_count |-> 0, is_dirty |-> FALSE, data |-> 0]]
  /\ free_list = [i \in 1 .. PoolSize |-> i - 1]
  /\ page_table = NewTable(BucketSize)
  /\ replacer = NewReplacer
  /\ next_page_id = 0
  /\ disk = [p \in PageIds |-> 0]
  /\ written = [p \in WrittenIds |-> NoData]
  /\ ret = Result("Init", INVALID_PAGE_ID, FALSE, FALSE, FALSE)


\* The contents the caller has declared for a page it writes
Declare(page_id, data) ==
  IF page_id \in WrittenIds THEN [written EXCEPT ![page_id] = data] ELSE written

\* DiskManager::WritePage
WritePage(dsk, page_id, data) == [dsk EXCEPT ![page_id] = data]

\* lines 56-58 (88-90 in FetchPgImp): write the victim back when it is dirty
WriteBack(dsk, page) ==
  IF page.is_dirty THEN WritePage(dsk, page.page_id, page.data) ELSE dsk

\* lines 52-60 (84-92 in FetchPgImp): the head of the free list, else a
\* victim of the replacer, written back if dirty and taken out of the page
\* table
AcquireFrame ==
  IF free_list # <<>>
  THEN [ok |-> TRUE, frame |-> Head(free_list), free_list |-> Tail(free_list),
        page_table |-> page_table, replacer |-> replacer, disk |-> disk]
  ELSE LET e == Evict(replacer)
       IN IF e.ok
          THEN [ok |-> TRUE, frame |-> e.frame, free_list |-> free_list,
                page_table |-> Remove(page_table, pages[e.frame].page_id),
                replacer |-> e.r, disk |-> WriteBack(disk, pages[e.frame])]
          ELSE [ok |-> FALSE, frame |-> -1, free_list |-> free_list,
                page_table |-> page_table, replacer |-> replacer, disk |-> disk]

\* lines 64-72 / 95-103: the acquired frame takes the page, pinned once
InstallPage(a, page_id, data) ==
  /\ replacer.current_timestamp < MaxTime
  /\ page_table' = Insert(a.page_table, page_id, a.frame)
  /\ pages' = [pages EXCEPT ![a.frame] =
                 [page_id |-> page_id, pin_count |-> 1, is_dirty |-> FALSE, data |-> data]]
  /\ replacer' = SetEvictable(RecordAccess(a.replacer, a.frame), a.frame, FALSE)
  /\ free_list' = a.free_list
  /\ disk' = a.disk

\* A NewPgImp that allocates the page id before it looks for a frame
NewPgFail_Allocates ==
  /\ next_page_id' = next_page_id + 1
  /\ UNCHANGED <<pages, free_list, page_table, replacer, disk, written>>
  /\ ret' = Result("New", INVALID_PAGE_ID, FALSE, FALSE, FALSE)

\* NewPgImp, lines 60-63: no free frame and no victim
NewPgFail ==
  /\ UNCHANGED <<poolvars, written>>
  /\ ret' = Result("New", INVALID_PAGE_ID, FALSE, FALSE, FALSE)

\* BufferPoolManagerInstance::NewPgImp
NewPgImp ==
  LET a == AcquireFrame
  IN IF a.ok
     THEN /\ next_page_id < MaxPages
          /\ InstallPage(a, next_page_id, 0)
          /\ next_page_id' = next_page_id + 1
          /\ ret' = Result("New", next_page_id, FALSE, TRUE, FALSE)
          /\ UNCHANGED written
     ELSE NewPgFail

\* A FetchPgImp whose hit path forgets SetEvictable(frame_id, false)
FetchHit_StaysEvictable(page_id, frame_id) ==
  /\ replacer.current_timestamp < MaxTime
  /\ replacer' = RecordAccess(replacer, frame_id)
  /\ pages' = [pages EXCEPT ![frame_id].pin_count = pages[frame_id].pin_count + 1]
  /\ ret' = Result("Fetch", page_id, FALSE, TRUE, FALSE)
  /\ UNCHANGED <<free_list, page_table, next_page_id, disk, written>>

\* FetchPgImp, lines 79-82: the page is in the pool
FetchHit(page_id, frame_id) ==
  /\ replacer.current_timestamp < MaxTime
  /\ replacer' = SetEvictable(RecordAccess(replacer, frame_id), frame_id, FALSE)
  /\ pages' = [pages EXCEPT ![frame_id].pin_count = pages[frame_id].pin_count + 1]
  /\ ret' = Result("Fetch", page_id, FALSE, TRUE, FALSE)
  /\ UNCHANGED <<free_list, page_table, next_page_id, disk, written>>

\* FetchPgImp, lines 92-94: no free frame and no victim
FetchFail(page_id) ==
  /\ UNCHANGED <<poolvars, written>>
  /\ ret' = Result("Fetch", page_id, FALSE, FALSE, FALSE)

\* FetchPgImp, lines 84-103: the page is read from disk into a frame
FetchMiss(page_id) ==
  LET a == AcquireFrame
  IN IF a.ok
     THEN /\ InstallPage(a, page_id, a.disk[page_id])
          /\ ret' = Result("Fetch", page_id, FALSE, TRUE, FALSE)
          /\ UNCHANGED <<next_page_id, written>>
     ELSE FetchFail(page_id)

\* BufferPoolManagerInstance::FetchPgImp
FetchPgImp(page_id) ==
  LET f == Find(page_table, page_id)
  IN IF f.found THEN FetchHit(page_id, f.value) ELSE FetchMiss(page_id)

\* An UnpinPgImp that assigns is_dirty instead of or-ing it in
UnpinDirty_Assigns(old, is_dirty) == is_dirty

\* UnpinPgImp, line 116
UnpinDirty(old, is_dirty) == old \/ is_dirty

\* An UnpinPgImp that marks the frame evictable whatever its pin count
UnpinEvictable_Always(r, frame_id, pin_count) == SetEvictable(r, frame_id, TRUE)

\* UnpinPgImp, lines 117-119
UnpinEvictable(r, frame_id, pin_count) ==
  IF pin_count = 0 THEN SetEvictable(r, frame_id, TRUE) ELSE r

\* BufferPoolManagerInstance::UnpinPgImp
UnpinPgImp(page_id, is_dirty) ==
  LET f == Find(page_table, page_id)
  IN IF ~f.found \/ pages[f.value].pin_count = 0
     THEN /\ UNCHANGED <<poolvars, written>>
          /\ ret' = Result("Unpin", page_id, is_dirty, FALSE, FALSE)
     ELSE /\ pages' = [pages EXCEPT ![f.value].pin_count = pages[f.value].pin_count - 1,
                                    ![f.value].is_dirty = UnpinDirty(pages[f.value].is_dirty, is_dirty)]
          /\ replacer' = UnpinEvictable(replacer, f.value, pages[f.value].pin_count - 1)
          /\ written' = IF is_dirty THEN Declare(page_id, pages[f.value].data) ELSE written
          /\ ret' = Result("Unpin", page_id, is_dirty, TRUE, FALSE)
          /\ UNCHANGED <<free_list, page_table, next_page_id, disk>>

\* BufferPoolManagerInstance::FlushPgImp
FlushPgImp(page_id) ==
  LET f == Find(page_table, page_id)
  IN IF ~f.found
     THEN /\ UNCHANGED <<poolvars, written>>
          /\ ret' = Result("Flush", page_id, FALSE, FALSE, FALSE)
     ELSE /\ disk' = WritePage(disk, pages[f.value].page_id, pages[f.value].data)
          /\ pages' = [pages EXCEPT ![f.value].is_dirty = FALSE]
          /\ ret' = Result("Flush", page_id, FALSE, TRUE, FALSE)
          /\ UNCHANGED <<free_list, page_table, replacer, next_page_id, written>>

\* FlushAllPgsImp, line 141: pages_->is_dirty_ is the flag of pages_[0]
FlushAllClear(pgs, frame_id) == [pgs EXCEPT ![0].is_dirty = FALSE]

\* FlushAllPgsImp, lines 138-143: the loop from frame_id on, over the pair
\* (frames, disk)
RECURSIVE FlushAllLoop(_, _)
FlushAllLoop(frame_id, s) ==
  IF frame_id >= PoolSize THEN s
  ELSE FlushAllLoop(frame_id + 1,
         IF Find(page_table, s.pages[frame_id].page_id).found
         THEN [pages |-> FlushAllClear(s.pages, frame_id),
               disk |-> WritePage(s.disk, s.pages[frame_id].page_id, s.pages[frame_id].data)]
         ELSE s)

\* BufferPoolManagerInstance::FlushAllPgsImp
FlushAllPgsImp ==
  LET s == FlushAllLoop(0, [pages |-> pages, disk |-> disk])
  IN /\ pages' = s.pages
     /\ disk' = s.disk
     /\ ret' = Result("FlushAll", INVALID_PAGE_ID, FALSE, TRUE, FALSE)
     /\ UNCHANGED <<free_list, page_table, replacer, next_page_id, written>>

\* DeletePgImp, lines 156-159: pages_->is_dirty_ is the flag of pages_[0]
DeleteWriteBack(frame_id) ==
  IF pages[frame_id].is_dirty
  THEN /\ disk' = WritePage(disk, pages[frame_id].page_id, pages[frame_id].data)
       /\ pages' = [pages EXCEPT ![0].is_dirty = FALSE]
  ELSE UNCHANGED <<disk, pages>>

\* A DeletePgImp that forgets to take the page out of the page table
DeleteRelease_KeepsEntry(page_id, frame_id) ==
  /\ replacer' = ReplacerRemove(replacer, frame_id)
  /\ free_list' = Append(free_list, frame_id)
  /\ page_table' = page_table

\* DeletePgImp, lines 160-163: the frame leaves the replacer and the page
\* table and joins the tail of the free list
DeleteRelease(page_id, frame_id) ==
  /\ replacer' = ReplacerRemove(replacer, frame_id)
  /\ free_list' = Append(free_list, frame_id)
  /\ page_table' = Remove(page_table, page_id)

\* BufferPoolManagerInstance::DeletePgImp.  DeallocatePage is called first,
\* on every path (line 148).
DeletePgImp(page_id) ==
  LET f == Find(page_table, page_id)
  IN IF ~f.found
     THEN /\ UNCHANGED poolvars
          /\ written' = Declare(page_id, NoData)
          /\ ret' = Result("Delete", page_id, FALSE, TRUE, TRUE)
     ELSE IF pages[f.value].pin_count > 0
     THEN /\ UNCHANGED <<poolvars, written>>
          /\ ret' = Result("Delete", page_id, FALSE, FALSE, TRUE)
     ELSE /\ DeleteWriteBack(f.value)
          /\ DeleteRelease(page_id, f.value)
          /\ written' = Declare(page_id, NoData)
          /\ ret' = Result("Delete", page_id, FALSE, TRUE, TRUE)
          /\ UNCHANGED next_page_id

\* The holder of a handle (a pinned page) writes the page's bytes through
\* Page::GetData.  Until the next UnpinPage(p, true) the pool has not been
\* told of the new contents.
WriteData(page_id, v) ==
  LET f == Find(page_table, page_id)
  IN /\ f.found
     /\ pages[f.value].pin_count > 0
     /\ pages' = [pages EXCEPT ![f.value].data = v]
     /\ written' = Declare(page_id, NoData)
     /\ ret' = Result("Write", page_id, FALSE, TRUE, FALSE)
     /\ UNCHANGED <<free_list, page_table, replacer, next_page_id, disk>>

\* ======================================================================
\* Latching: threads calling the pool concurrently
\* ======================================================================

ThreadIds == 1 .. NumThreads

\* A call made by a pool operation on the page table or on the replacer
Index(fn) == [on |-> "index", fn |-> fn]
Replacer(fn) == [on |-> "replacer", fn |-> fn]

\* The calls each pool operation makes while it holds latch_, in order, one
\* sequence per path through the operation
NewPgCalls ==
  { <<Index("Insert"), Replacer("RecordAccess"), Replacer("SetEvictable")>>,
    <<Replacer("Evict"), Index("Remove"), Index("Insert"),
      Replacer("RecordAccess"), Replacer("SetEvictable")>>,
    <<Replacer("Evict")>> }

FetchPgCalls ==
  { <<Index("Find"), Replacer("RecordAccess"), Replacer("SetEvictable")>>,
    <<Index("Find"), Index("Insert"), Replacer("RecordAccess"), Replacer("SetEvictable")>>,
    <<Index("Find"), Replacer("Evict"), Index("Remove"), Index("Insert"),
      Replacer("RecordAccess"), Replacer("SetEvictable")>>,
    <<Index("Find"), Replacer("Evict")>> }

UnpinPgCalls ==
  { <<Index("Find")>>,
    <<Index("Find"), Replacer("SetEvictable")>> }

FlushPgCalls == { <<Index("Find")>> }

FlushAllPgsCalls == { [i \in 1 .. PoolSize |-> Index("Find")] }

DeletePgCalls ==
  { <<Index("Find")>>,
    <<Index("Find"), Replacer("Remove"), Index("Remove")>> }

PoolCalls ==
  NewPgCalls \cup FetchPgCalls \cup UnpinPgCalls \cup FlushPgCalls
    \cup FlushAllPgsCalls \cup DeletePgCalls

\* The member functions of the table that take latch_ themselves
TakesLatch(fn) ==
  fn \in {"Find", "Remove", "Insert", "GetGlobalDepth", "GetLocalDepth", "GetNumBuckets"}

\* An Insert that asks for the global depth through the public getter
Helpers_PublicGetter(fn) ==
  IF fn = "Insert" THEN <<"IndexOf", "GetGlobalDepth">> ELSE <<"IndexOf">>

\* The member functions of the table that Find, Remove and Insert call
\* while they hold latch_
Helpers(fn) ==
  IF fn = "Insert" THEN <<"IndexOf", "GetGlobalDepthInternal">> ELSE <<"IndexOf">>

Lock(l) == [do |-> "lock", on |-> l]
Unlock(l) == [do |-> "unlock", on |-> l]
Run(fn) == [do |-> "run", on |-> fn]

\* The steps of a member function of the table called from inside the
\* table: its scoped_lock, if it takes one, around its body
HelperSteps(fn) ==
  IF TakesLatch(fn) THEN <<Lock("index"), Run(fn), Unlock("index")>> ELSE <<Run(fn)>>

RECURSIVE Flatten(_)
Flatten(seqs) == IF seqs = <<>> THEN <<>> ELSE Head(seqs) \o Flatten(Tail(seqs))

\* The steps of one call on the table (scoped_lock on latch_, the body with
\* the helpers it calls, release) or on the replacer (its own latch)
CallSteps(c) ==
  IF c.on = "index"
  THEN <<Lock("index")>>
         \o Flatten([i \in 1 .. Len(Helpers(c.fn)) |-> HelperSteps(Helpers(c.fn)[i])])
         \o <<Run(c.fn), Unlock("index")>>
  ELSE <<Lock("replacer"), Run(c.fn), Unlock("replacer")>>

\* The steps of a pool operation: scoped_lock on latch_ first, released on
\* return
OpSteps(calls) ==
  <<Lock("pool")>> \o Flatten([i \in 1 .. Len(calls) |-> CallSteps(calls[i])]) \o <<Unlock("pool")>>

Idle == [steps |-> <<>>, at |-> 1]

LInit ==
  /\ threads = [t \in ThreadIds |-> Idle]
  /\ latches = [l \in {"pool", "index", "replacer"} |-> 0]

Busy(t) == threads[t].steps # <<>>

Current(t) == threads[t].steps[threads[t].at]

\* The thread's place after its current step; the last step returns
Advance(t) ==
  IF threads[t].at = Len(threads[t].steps)
  THEN [threads EXCEPT ![t] = Idle]
  ELSE [threads EXCEPT ![t].at = threads[t].at + 1]

\* A thread calls a pool operation
Call(t, calls) ==
  /\ ~Busy(t)
  /\ threads' = [threads EXCEPT ![t] = [steps |-> OpSteps(calls), at |-> 1]]
  /\ UNCHANGED latches

\* std::mutex::lock: the thread waits until the latch is free, also when
\* it is the holder itself
Acquire(t) ==
  /\ Busy(t) /\ Current(t).do = "lock"
  /\ latches[Current(t).on] = 0
  /\ latches' = [latches EXCEPT ![Current(t).on] = t]
  /\ threads' = Advance(t)

\* std::mutex::unlock at the end of the scoped_lock's scope
Release(t) ==
  /\ Busy(t) /\ Current(t).do = "unlock"
  /\ latches' = [latches EXCEPT ![Current(t).on] = 0]
  /\ threads' = Advance(t)

\* The body of a member function, under the latches held
RunBody(t) ==
  /\ Busy(t) /\ Current(t).do = "run"
  /\ threads' = Advance(t)
  /\ UNCHANGED latches

\* The ids a caller can name: those AllocatePage has handed out
Allocated == 0 .. (next_page_id - 1)

Next ==
  \/ NewPgImp /\ UNCHANGED <<hvars, lvars>>
  \/ \E p \in Allocated : FetchPgImp(p) /\ UNCHANGED <<hvars, lvars>>
  \/ \E p \in Allocated, d \in BOOLEAN : UnpinPgImp(p, d) /\ UNCHANGED <<hvars, lvars>>
  \/ \E p \in Allocated : FlushPgImp(p) /\ UNCHANGED <<hvars, lvars>>
  \/ FlushAllPgsImp /\ UNCHANGED <<hvars, lvars>>
  \/ \E p \in Allocated : DeletePgImp(p) /\ UNCHANGED <<hvars, lvars>>
  \/ \E p \in Allocated \cap WrittenIds, v \in 1 .. MaxVal : WriteData(p, v) /\ UNCHANGED <<hvars, lvars>>

\* The pool as constructed; no stand-alone table is in use
Init == PoolInit /\ HInit(BucketSize) /\ LInit

\* The pool and its clients
Spec == Init /\ [][Next]_allvars

\* The calls of the stand-alone table's client
HNext ==
  \/ \E k \in Keys, v \in Values : HInsert(k, v) /\ UNCHANGED <<vars, lvars>>
  \/ \E k \in Keys : HRemove(k) /\ UNCHANGED <<vars, lvars>>
  \/ \E k \in Keys : HFind(k) /\ UNCHANGED <<vars, lvars>>

\* A stand-alone table of any of the bucket sizes and its client; the pool
\* stays as constructed
HashInit == PoolInit /\ LInit /\ \E n \in BucketSizes : HInit(n)

SpecHash == HashInit /\ [][HNext]_allvars

\* The steps of the threads
LNext ==
  \/ \E t \in ThreadIds, calls \in PoolCalls : Call(t, calls) /\ UNCHANGED <<vars, hvars>>
  \/ \E t \in ThreadIds : Acquire(t) /\ UNCHANGED <<vars, hvars>>
  \/ \E t \in ThreadIds : Release(t) /\ UNCHANGED <<vars, hvars>>
  \/ \E t \in ThreadIds : RunBody(t) /\ UNCHANGED <<vars, hvars>>

LatchInit == PoolInit /\ HInit(BucketSize) /\ LInit

\* Threads calling the pool's operations in any interleaving; only the
\* latches are followed
SpecLatch == LatchInit /\ [][LNext]_allvars


\* ======================================================================
\* Properties
\* ======================================================================

\* The entries of the page table: (bucket, position) pairs
Entries == {e \in (1 .. Len(page_table.buckets)) \X (1 .. PoolSize + 1) :
              e[2] <= Len(page_table.buckets[e[1]].list)}

EntryValue(e) == page_table.buckets[e[1]].list[e[2]][2]

\* How many index entries have frame f as value, how often f is in free_list
IndexCount(f) == Cardinality({e \in Entries : EntryValue(e) = f})
FreeCount(f) == Cardinality({i \in 1 .. Len(free_list) : free_list[i] = f})

IsCached(p) == Find(page_table, p).found
FrameOf(p) == Find(page_table, p).value
MapsTo(t, p, f) == Find(t, p).found /\ Find(t, p).value = f

\* C1: every frame whose page id is not INVALID is the frame the index maps
\* that page id to, and no two frames hold the same page id.
C1_FramesAgreeWithIndex ==
  \A f \in Frames :
    pages[f].page_id # INVALID_PAGE_ID =>
      /\ MapsTo(page_table, pages[f].page_id, f)
      /\ \A g \in Frames \ {f} : pages[g].page_id # pages[f].page_id

\* C2: when FetchPage(p) brings back an evicted page p whose contents were
\* declared by UnpinPage(p, true) and that no call has written or deleted
\* since, the frame it returns holds those contents.
C2_RoundTrip ==
  [][\A p \in WrittenIds :
       ( /\ ret'.op = "Fetch" /\ ret'.page = p /\ ret'.ok
         /\ ~IsCached(p)
         /\ written[p] # NoData )
       => pages'[Find(page_table', p).value].data = written[p]]_vars

\* The index maps the page id of every pinned frame to that frame
C3_PinnedMapped ==
  \A f \in Frames : pages[f].pin_count > 0 => MapsTo(page_table, pages[f].page_id, f)

\* A step of NewPage, FetchPage of another page or DeletePage leaves a
\* pinned frame's page id, bytes and index entry alone
C3_PinnedUntouched ==
  \A f \in Frames :
    ( /\ pages[f].pin_count > 0
      /\ \/ ret'.op = "New"
         \/ ret'.op = "Fetch" /\ ret'.page # pages[f].page_id
         \/ ret'.op = "Delete" )
    => /\ pages'[f].page_id = pages[f].page_id
       /\ pages'[f].data = pages[f].data
       /\ MapsTo(page_table', pages[f].page_id, f)

\* C3: a frame with pin count > 0 is never chosen as a victim: it keeps its
\* page id, its bytes and its index entry across every NewPage, FetchPage of
\* another page and DeletePage, and in every state the index maps a pinned
\* frame's page id to that frame.
C3_PinnedNeverVictim == [](C3_PinnedMapped) /\ [][C3_PinnedUntouched]_vars

\* C3 witness: a NewPage has just evicted a page while another frame is pinned
C3_Witness ==
  /\ ret.op = "New" /\ ret.ok /\ ret.page >= PoolSize
  /\ \E f \in Frames : pages[f].pin_count > 0 /\ pages[f].page_id # ret.page

\* C4: every frame is in the free list exactly once or the value of exactly
\* one index entry, never both; |free_list| + cached frames = pool_size.
C4_FreeOrCached ==
  /\ \A f \in Frames : FreeCount(f) + IndexCount(f) = 1
  /\ Len(free_list) + Cardinality({f \in Frames : IndexCount(f) > 0}) = PoolSize

\* C4 witness: a DeletePage has returned a frame to the free list while
\* another frame is cached
C4_Witness ==
  /\ ret.op = "Delete" /\ ret.ok
  /\ free_list # <<>>
  /\ \E f \in Frames : IndexCount(f) = 1

\* Evictable frames are unpinned, pinned frames are not evictable
C5_EvictableState ==
  \A f \in Frames :
    /\ f \in Evictable(replacer) => pages[f].pin_count = 0
    /\ pages[f].pin_count > 0 => ~replacer.evictable[f]

\* A frame becomes evictable only in the UnpinPage that brings its pin count
\* from 1 to 0; the frame a successful NewPage or FetchPage returns is not
\* evictable
C5_EvictableStep ==
  \A f \in Frames :
    /\ (~replacer.evictable[f] /\ replacer'.evictable[f]) =>
         /\ ret'.op = "Unpin" /\ ret'.ok
         /\ pages[f].pin_count = 1 /\ pages'[f].pin_count = 0
    /\ (ret'.op \in {"New", "Fetch"} /\ ret'.ok /\ MapsTo(page_table', ret'.page, f)) =>
         ~replacer'.evictable[f]

\* C5: every frame the replacer holds as evictable has pin count 0 and every
\* frame with pin count > 0 is not evictable; the pool sets evictable=false on
\* every NewPage/FetchPage and evictable=true exactly when UnpinPage brings
\* the pin count to 0.
C5_EvictableIffUnpinned == [](C5_EvictableState) /\ [][C5_EvictableStep]_vars

\* C5 witness: one frame is pinned, another has been unpinned to 0 and is
\* evictable
C5_Witness ==
  /\ \E f \in Frames : pages[f].pin_count > 0 /\ ~replacer.evictable[f]
  /\ \E f \in Frames : pages[f].pin_count = 0 /\ f \in Evictable(replacer)

\* C6: DeletePage(p) on a cached page p with pin count 0 returns true; then p
\* is not in the index, its frame is at the tail of the free list, has no
\* replacer entry, and has page id INVALID, pin count 0 and dirty false.
C6_DeleteResetsFrame ==
  [][\A p \in PageIds, f \in Frames :
       ( /\ ret'.op = "Delete" /\ ret'.page = p
         /\ MapsTo(page_table, p, f)
         /\ pages[f].pin_count = 0 )
       => /\ ret'.ok
          /\ ~Find(page_table', p).found
          /\ free_list' # <<>> /\ free_list'[Len(free_list')] = f
          /\ replacer'.hist[f] = <<>> /\ ~replacer'.evictable[f]
          /\ pages'[f].page_id = INVALID_PAGE_ID
          /\ pages'[f].pin_count = 0
          /\ ~pages'[f].is_dirty]_vars

\* C7: after FlushAllPages every page cached per the index has its frame's
\* bytes on disk and a clear dirty flag, and the disk contents of pages that
\* are not cached are untouched.
C7_FlushAllCleans ==
  [][ret'.op = "FlushAll" =>
       \A p \in PageIds :
         IF IsCached(p)
         THEN /\ disk'[p] = pages'[FrameOf(p)].data
              /\ ~pages'[FrameOf(p)].is_dirty
         ELSE disk'[p] = disk[p]]_vars

\* No free frame and no evictable frame
Exhausted == free_list = <<>> /\ Size(replacer) = 0

\* An exhausted pool refuses NewPage and FetchPage of an uncached page and
\* stays as it is; next_page_id moves only in a successful NewPage, which
\* returns its old value
C8_ExhaustedStep ==
  /\ (Exhausted /\ ret'.op = "New") => (~ret'.ok /\ UNCHANGED poolvars)
  /\ (Exhausted /\ ret'.op = "Fetch" /\ ~IsCached(ret'.page)) =>
       (~ret'.ok /\ UNCHANGED poolvars)
  /\ IF ret'.op = "New" /\ ret'.ok
     THEN ret'.page = next_page_id /\ next_page_id' = next_page_id + 1
     ELSE next_page_id' = next_page_id

\* C8: with no free frame and no evictable frame, NewPage and FetchPage of an
\* uncached page return null and leave the pool unchanged (frames, index,
\* free list, replacer, next_page_id); the page ids of successful NewPage
\* calls are 0, 1, 2, ... in call order whatever calls failed in between.
C8_ExhaustedFailsCleanly ==
  [](ret.op = "Init" => next_page_id = 0) /\ [][C8_ExhaustedStep]_vars

\* C8 witness: a NewPage has just failed on a pool whose frames are all pinned
\* after NewPage succeeded PoolSize times
C8_Witness ==
  /\ ret.op = "New" /\ ~ret.ok
  /\ next_page_id = PoolSize
  /\ \A f \in Frames : pages[f].pin_count > 0

\* C9: DeletePage(p) on a cached page p with pin count > 0 returns false,
\* changes nothing in the pool and does not call DeallocatePage.
C9_PinnedDeleteNoDealloc ==
  [][\A p \in PageIds :
       ( /\ ret'.op = "Delete" /\ ret'.page = p
         /\ IsCached(p) /\ pages[FrameOf(p)].pin_count > 0 )
       => /\ ~ret'.ok
          /\ UNCHANGED poolvars
          /\ ~ret'.dealloc]_vars

\* What one UnpinPage(p, d) step does
C10_UnpinStep ==
  \A p \in PageIds, d \in BOOLEAN :
    (ret'.op = "Unpin" /\ ret'.page = p /\ ret'.is_dirty = d) =>
      IF ~IsCached(p) \/ pages[FrameOf(p)].pin_count = 0
      THEN ~ret'.ok /\ UNCHANGED poolvars
      ELSE LET f == FrameOf(p)
           IN /\ ret'.ok
              /\ pages'[f].pin_count = pages[f].pin_count - 1
              /\ pages'[f].is_dirty = (pages[f].is_dirty \/ d)
              /\ replacer'.evictable[f] = (pages'[f].pin_count = 0)
              /\ pages'[f].page_id = pages[f].page_id
              /\ pages'[f].data = pages[f].data
              /\ \A g \in Frames \ {f} : pages'[g] = pages[g]
              /\ UNCHANGED <<free_list, page_table, next_page_id, disk>>

\* C10: UnpinPage(p, is_dirty) returns false and changes nothing exactly when
\* p is not in the index or its frame's pin count is 0; otherwise it returns
\* true, decrements the pin count by 1, sets dirty to (old dirty or is_dirty)
\* and marks the frame evictable iff the pin count reached 0.
C10_UnpinContract == [][C10_UnpinStep]_vars

\* C10 witness: UnpinPage(p, false) has brought a dirty frame to pin count 0;
\* the frame is still dirty and is evictable
C10_Witness ==
  /\ ret.op = "Unpin" /\ ret.ok /\ ~ret.is_dirty
  /\ IsCached(ret.page)
  /\ pages[FrameOf(ret.page)].is_dirty
  /\ pages[FrameOf(ret.page)].pin_count = 0
  /\ replacer.evictable[FrameOf(ret.page)]


\* C20: DeletePage(p) modifies only the frame that holds p: every other
\* frame keeps its page id, pin count, dirty flag and bytes, whether or not
\* p was dirty and whichever frame p occupied.
C20_DeleteTouchesOneFrame ==
  [][ret'.op = "Delete" =>
       \A f \in Frames : ~MapsTo(page_table, ret'.page, f) => pages'[f] = pages[f]]_allvars


\* ======================================================================
\* Properties of the stand-alone hash table (SpecHash)
\* ======================================================================

\* What Find returns for a key whose latest Insert not removed since stored
\* v (NoValue: no such Insert)
Expected(v) ==
  IF v = NoValue THEN [found |-> FALSE, value |-> -1] ELSE [found |-> TRUE, value |-> v]

C11_FindLatest == \A k \in Keys : Find(table, k) = Expected(shadow[k])

C11_CallStep ==
  /\ hret'.op = "Remove" => hret'.found = (shadow[hret'.key] # NoValue)
  /\ hret'.op = "Find" =>
       /\ hret'.found = (shadow[hret'.key] # NoValue)
       /\ hret'.value = shadow[hret'.key]

\* C11: after any sequence of Insert and Remove calls, directory doublings
\* and bucket splits included, Find(k) returns the value of the latest
\* Insert(k, v) not followed by Remove(k) and reports absence otherwise,
\* and Remove(k) returns true exactly when k was present.
C11_FindAndRemove == [](C11_FindLatest) /\ [][C11_CallStep]_allvars

\* A Remove that found its key, in a table that has doubled twice and
\* still holds another key
C11_Witness ==
  /\ table.global_depth = 2
  /\ hret.op = "Remove" /\ hret.found
  /\ \E k \in Keys : shadow[k] = 2 /\ Find(table, k).found

\* The local depth of every bucket of a table, by bucket
LocalDepths(t) == [i \in 1 .. Len(t.buckets) |-> t.buckets[i].depth]

\* C12: an Insert(k, v) for a key k already present overwrites k's value
\* and changes nothing else: global depth, local depths, directory and
\* GetNumBuckets are as before, also when the bucket holding k is full.
C12_OverwriteInPlace ==
  [][(hret'.op = "Insert" /\ hret'.returned /\ shadow[hret'.key] # NoValue)
       => /\ Find(table', hret'.key) = Expected(hret'.value)
          /\ table'.global_depth = table.global_depth
          /\ LocalDepths(table') = LocalDepths(table)
          /\ table'.dir = table.dir
          /\ table'.num_buckets = table.num_buckets]_allvars

\* C13: Insert terminates for every key when the keys of the table and the
\* inserted key have pairwise distinct hash values (std::hash<int> is
\* injective, so always here): the loop splits finitely often and the
\* call returns.
C13_InsertReturns == hret.op = "Insert" => hret.returned


\* The run so far is exactly the first n inserts of the three-insert
\* scenario on a fresh table of bucket_size 2
After(n) == scenario = n /\ table.bucket_size = 2

\* What the three inserts leave in the table
C15_Contents ==
  /\ \A i \in 1 .. Len(ScenarioOps) : Find(table, ScenarioOps[i][1]) = Expected(ScenarioOps[i][2])
  /\ table.num_buckets >= 2

\* C15: with bucket_size 2 and the identity hash, inserting (0, a), (1, b),
\* (2, c) into an empty table makes the global depth 1 and then 2 (it is 2
\* after the third insert), Find(0) = a, Find(1) = b, Find(2) = c and
\* GetNumBuckets() >= 2.
C15_ThreeInserts == After(3) => (table.global_depth = 2 /\ C15_Contents)

\* C15, amended: the first two inserts leave the global depth 0 and the
\* third makes it 1 (not 2): one split of the single full bucket makes
\* room for key 2.  Find(0) = a, Find(1) = b, Find(2) = c and
\* GetNumBuckets() >= 2 as claimed.
C15_ThreeInsertsDepthOne ==
  /\ (After(1) \/ After(2)) => table.global_depth = 0
  /\ After(3) => (table.global_depth = 1 /\ C15_Contents)

\* The three inserts have been made
C15_Witness == After(3) /\ hret = HResult("Insert", 2, 3, TRUE, TRUE)


\* The bucket objects the directory references
Referenced(t) == {t.dir[i] : i \in 1 .. Len(t.dir)}

C16_CountsReferenced == table.num_buckets = Cardinality(Referenced(table))

\* The passes of Insert's loop each raise the bucket count, and the number
\* of referenced buckets, by one; Remove leaves both alone
C16_CountStep ==
  /\ hret'.op = "Remove" =>
       /\ table'.num_buckets = table.num_buckets
       /\ Referenced(table') = Referenced(table)
  /\ hret'.op = "Insert" =>
       LET steps == SplitSteps(table, hret'.key)
       IN /\ \A i \in 1 .. (Len(steps) - 1) :
               /\ steps[i + 1].num_buckets = steps[i].num_buckets + 1
               /\ Cardinality(Referenced(steps[i + 1])) = Cardinality(Referenced(steps[i])) + 1
          /\ table'.num_buckets = steps[Len(steps)].num_buckets

\* C16: GetNumBuckets() is the number of distinct bucket objects the
\* directory references; each split raises it by exactly one; Remove never
\* changes it.
C16_NumBuckets == [](C16_CountsReferenced) /\ [][C16_CountStep]_allvars

\* A Remove that found its key and emptied the table, after splits that
\* made four buckets
C16_Witness ==
  /\ hret.op = "Remove" /\ hret.found
  /\ table.num_buckets = 4
  /\ \A k \in Keys : shadow[k] = NoValue


\* The directory's slot numbers
Slots(t) == 0 .. (Len(t.dir) - 1)

\* The slots that reference the bucket object b
SlotsOf(t, b) == {i \in Slots(t) : t.dir[i + 1] = b}

\* C17: two slots i and j reference the same bucket b exactly when i and j
\* agree in their low b.local_depth bits, so a bucket of local depth d is
\* referenced by exactly 2^(global_depth - d) slots.
C17_SlotsAgree ==
  /\ \A i \in Slots(table), j \in Slots(table) :
       (table.dir[i + 1] = table.dir[j + 1])
         <=> (HashLow(i, BucketAt(table, i).depth) = HashLow(j, BucketAt(table, i).depth))
  /\ \A b \in Referenced(table) :
       Cardinality(SlotsOf(table, b)) = Pow2(table.global_depth - table.buckets[b].depth)

\* A directory of four slots in which one bucket of local depth 1 is
\* shared by two slots and the other two slots have buckets of their own
C17_Witness ==
  /\ table.global_depth = 2
  /\ \E b \in Referenced(table) :
       table.buckets[b].depth = 1 /\ Cardinality(SlotsOf(table, b)) = 2
  /\ Cardinality(Referenced(table)) = 3


\* The keys held by the bucket object b, with repetitions
KeysOf(t, b) == [n \in 1 .. Len(t.buckets[b].list) |-> t.buckets[b].list[n][1]]

\* C18: every key k in a bucket b reached through slot i has
\* hash(k) & (2^b.local_depth - 1) = i & (2^b.local_depth - 1); each key is
\* stored in the bucket its slot hash(k) & (2^global_depth - 1) addresses;
\* no key is stored twice; no bucket holds more than bucket_size entries.
C18_KeysPlaced ==
  /\ \A i \in Slots(table) :
       LET b == table.dir[i + 1]
           d == table.buckets[b].depth
       IN \A n \in 1 .. Len(KeysOf(table, b)) :
            HashLow(KeysOf(table, b)[n], d) = HashLow(i, d)
  /\ \A b \in Referenced(table) :
       /\ \A n \in 1 .. Len(KeysOf(table, b)) :
            table.dir[IndexOf(table, KeysOf(table, b)[n]) + 1] = b
       /\ \A n \in 1 .. Len(KeysOf(table, b)), m \in 1 .. Len(KeysOf(table, b)) :
            KeysOf(table, b)[n] = KeysOf(table, b)[m] => n = m
       /\ Len(table.buckets[b].list) <= table.bucket_size
  /\ \A a \in Referenced(table), b \in Referenced(table) :
       a # b => \A n \in 1 .. Len(KeysOf(table, a)), m \in 1 .. Len(KeysOf(table, b)) :
                  KeysOf(table, a)[n] # KeysOf(table, b)[m]

\* Four keys spread over three buckets of a four-slot directory, one of
\* them full
C18_Witness ==
  /\ table.global_depth = 2 /\ table.bucket_size = 2
  /\ \A k \in Keys : shadow[k] # NoValue
  /\ \E b \in Referenced(table) : table.buckets[b].depth = 1 /\ IsFull(table.buckets[b])


C19_DirectoryShape ==
  /\ Len(table.dir) = Pow2(table.global_depth)
  /\ \A b \in Referenced(table) : table.buckets[b].depth <= table.global_depth

\* One pass of Insert's loop from table s to table u, splitting the bucket
\* object bi of s: the directory doubles, slot i + 2^old referencing what
\* slot i references unless that is one of the two new buckets, exactly
\* when the split bucket's local depth is the global depth; otherwise the
\* directory keeps its length
C19_Pass(s, u, bi) ==
  IF s.buckets[bi].depth = s.global_depth
  THEN /\ u.global_depth = s.global_depth + 1
       /\ Len(u.dir) = 2 * Len(s.dir)
       /\ \A i \in Slots(s) :
            IF s.dir[i + 1] = bi
            THEN u.dir[i + 1] # u.dir[i + Len(s.dir) + 1]
            ELSE u.dir[i + 1] = s.dir[i + 1] /\ u.dir[i + Len(s.dir) + 1] = s.dir[i + 1]
  ELSE /\ u.global_depth = s.global_depth
       /\ Len(u.dir) = Len(s.dir)

C19_DepthStep ==
  /\ table'.global_depth >= table.global_depth
  /\ hret'.op \in {"Remove", "Find"} => table'.dir = table.dir
  /\ hret'.op = "Insert" =>
       LET steps == SplitSteps(table, hret'.key)
       IN /\ \A n \in 1 .. (Len(steps) - 1) :
               C19_Pass(steps[n], steps[n + 1], steps[n].dir[IndexOf(steps[n], hret'.key) + 1])
          /\ table'.dir = steps[Len(steps)].dir
          /\ table'.global_depth = steps[Len(steps)].global_depth

\* C19: the directory's length is 2^global_depth and every referenced
\* bucket has local_depth <= global_depth; the directory is doubled (slot
\* i + 2^old_depth at first aliasing slot i) exactly when a split hits a
\* bucket whose local depth equals the global depth; the global depth
\* never decreases.
C19_Directory == [](C19_DirectoryShape) /\ [][C19_DepthStep]_allvars

\* After two doublings, an Insert has stored its key in the fourth bucket:
\* the one made by the split of a bucket of local depth 1 under global
\* depth 2, which did not double the directory
C19_Witness ==
  /\ hret.op = "Insert" /\ hret.returned
  /\ table.global_depth = 2
  /\ table.num_buckets = 4
  /\ table.dir[IndexOf(table, hret.key) + 1] = 4


\* ======================================================================
\* Properties of the latching (SpecLatch)
\* ======================================================================

Holds(t, l) == latches[l] = t

\* The thread is inside a pool operation: past its scoped_lock
Inside(t) == Busy(t) /\ threads[t].at > 1

\* The thread's next step does not wait
CanStep(t) == Current(t).do = "lock" => latches[Current(t).on] = 0

\* C14: every pool operation holds the pool latch for its whole duration,
\* so pool operations exclude each other; latches are taken only in the
\* order pool then index or pool then replacer, the index and replacer
\* latches never held together; no operation of the table takes the index
\* latch again while it holds it; and no interleaving of pool operations
\* deadlocks: while a call is in progress some call can take a step.
C14_Latching ==
  /\ \A t \in ThreadIds : Inside(t) => Holds(t, "pool")
  /\ Cardinality({t \in ThreadIds : Inside(t)}) <= 1
  /\ \A t \in ThreadIds : (Holds(t, "index") \/ Holds(t, "replacer")) => Holds(t, "pool")
  /\ ~(latches["index"] # 0 /\ latches["replacer"] # 0)
  /\ \A t \in ThreadIds :
       (Busy(t) /\ Current(t) = Lock("pool")) => \A l \in DOMAIN latches : ~Holds(t, l)
  /\ \A t \in ThreadIds :
       (Busy(t) /\ Current(t).do = "lock") => ~Holds(t, Current(t).on)
  /\ (\E t \in ThreadIds : Busy(t)) => \E t \in ThreadIds : Busy(t) /\ CanStep(t)

\* One thread is in Insert's loop, asking for the global depth under the
\* pool and index latches, while another waits for the pool latch
C14_Witness ==
  \E t \in ThreadIds, u \in ThreadIds :
    /\ t # u
    /\ Holds(t, "pool") /\ Holds(t, "index")
    /\ Current(t) = Run("GetGlobalDepthInternal")
    /\ Busy(u) /\ Current(u) = Lock("pool") /\ ~CanStep(u)

====
